---- MODULE Spec2Model ----
(***************************************************************************)
(* A model of MyOleFileParser.py: main() decoding a Compound File Binary   *)
(* (OLE2) file, and the recursive directory walk dump_entry().             *)
(*                                                                         *)
(* The byte source is an immutable sequence of sectors of 32-bit           *)
(* little-endian words.  A 32-bit word is held as its two's-complement     *)
(* reading (0xFFFFFFFF is -1, 0xFFFFFFFE is -2, ...), because TLC's        *)
(* integers are 32 bits wide; every use of a word below (equality with a   *)
(* sentinel, list index, file offset) is written so that a negative value  *)
(* behaves as the large unsigned number it stands for.                     *)
(*                                                                         *)
(* One action is one step of main(): a straight-line block, or one         *)
(* iteration of one of its while loops.  Printing is left out, except the  *)
(* directory listing and the "!!! Error in ... chain" messages, which are  *)
(* recorded in listing and errors.                                         *)
(***************************************************************************)
EXTENDS Integers, Sequences, FiniteSets, TLC

(***************************************************************************)
(* Program constants (lines 38-43).                                        *)
(***************************************************************************)
MAGICOLESIG == "D0CF11E0A1B11AE1"
NUMBER_DIFAT_ENTRIES_IN_HEADER == 109
DIFATSECTOR == -4
FATSECTOR == -3
ENDOFCHAIN == -2
UNALLOCATED == -1

\* Size in bytes of a directory record (lines 365-366) and of the header
\* (8 + 16 + 5*2 + 6 + 9*4 + 109*4 bytes, lines 172-197).
DirEntryBytes == 128
HeaderBytes == 8 + 16 + (5 * 2) + 6 + (9 * 4) + (NUMBER_DIFAT_ENTRIES_IN_HEADER * 4)

\* Object types of a directory record (lines 128-135).
TypeUnalloc == 0
TypeStorage == 1
TypeStream == 2
TypeRoot == 5

(***************************************************************************)
(* Bounds of the model.  The header fields sector_shift and                *)
(* mini_sector_shift are inputs; the files explored all carry the usual    *)
(* values.  RecursionLimit stands for the interpreter's recursion limit    *)
(* (1000 frames by default), at which dump_entry raises RecursionError.    *)
(* DifatPrefix is the number of leading header DIFAT entries that vary,    *)
(* LinkBudget the number of directory links that vary at once.             *)
(***************************************************************************)
SectorShift == 9
MiniSectorShift == 6
RecursionLimit == 5
DifatPrefix == 2
LinkBudget == 1

VARIABLES
    file,                 \* the byte source (immutable)
    pc,                   \* position of main()
    exc,                  \* the uncaught exception, when pc = "crash"
    nread,                \* bytes read from the byte source so far
    magic,                \* line 172
    hdr,                  \* header fields, lines 178-193
    difat_entries,        \* lines 194-197, 258
    myDifat_chain,        \* line 245
    myNextDifatSector,    \* line 246
    myAllocatedSectors,   \* line 267
    mySector,             \* lines 313, 321
    myDirSectorChain,     \* line 333
    myDirectorySector,    \* line 334
    myDirEntryList,       \* line 359
    stack,                \* the frames of dump_entry, innermost last
    listing,              \* the rows printed by dump_entry: <<id, indent>>
    myMiniFatSectorId,    \* line 374
    myMiniFatEntries,     \* line 375
    myMiniStreamSector,   \* line 413
    myMiniStream,         \* line 414
    myMiniStreamChain,    \* line 415
    i,                    \* the stream loop's index, line 444
    myIndex,              \* line 450
    streams,              \* what the stream loop dumped, one record per stream
    walk,                 \* history: the ids the running while loop has been at
    errors                \* the "!!! Error in ... chain" messages printed

vars == << file, pc, exc, nread, magic, hdr, difat_entries, myDifat_chain,
           myNextDifatSector, myAllocatedSectors, mySector, myDirSectorChain,
           myDirectorySector, myDirEntryList, stack, listing,
           myMiniFatSectorId, myMiniFatEntries, myMiniStreamSector,
           myMiniStream, myMiniStreamChain, i, myIndex, streams, walk, errors >>

(***************************************************************************)
(* The byte source.  file.sectors[s + 1] is sector s, at byte offset       *)
(* (1 + s) * sector size.  A sector is held sparsely: the words at the     *)
(* indices in DOMAIN w, and fill everywhere else.                          *)
(***************************************************************************)
NSect == Len(file.sectors)

InFile(s) == s \in 0 .. (NSect - 1)

SectorWord(s, k) ==
    LET sec == file.sectors[s + 1]
    IN  IF k \in DOMAIN sec.w THEN sec.w[k] ELSE sec.fill

\* struct.unpack('<I', f.read(4)) n times from the start of sector s.
SectorWords(s, n) == [k \in 1 .. n |-> SectorWord(s, k - 1)]

mySectorSize == 2 ^ hdr.sector_shift

myMiniSectorSize == 2 ^ hdr.mini_sector_shift

(***************************************************************************)
(* The files explored.  Each is written as a short description d (header   *)
(* fields, the leading FAT and MiniFAT words, the directory records, the   *)
(* two DIFAT sectors) laid out as nine sectors:                            *)
(*   0 FAT   1,2 directory   3 MiniFAT   4 mini-stream container           *)
(*   5,6 data   7,8 DIFAT                                                  *)
(* A pointer of the file may name any sector, whatever its content: every  *)
(* reader decodes the words of the sector it is sent to.                   *)
(***************************************************************************)
WordsPerSector == (2 ^ SectorShift) \div 4

EntriesPerSector == (2 ^ SectorShift) \div DirEntryBytes

WordsPerEntry == DirEntryBytes \div 4

\* A sector holding the words of seq from index 0 on, then fill.
WordSector(seq, fill) ==
    [w |-> [k \in 0 .. (Len(seq) - 1) |-> seq[k + 1]], fill |-> fill]

\* A DIFAT sector: entries from index 0 on, the next-DIFAT pointer in the
\* last slot, unallocated entries between.
DifatSectorOf(entries, next) ==
    [w |-> [k \in (0 .. (Len(entries) - 1)) \cup {WordsPerSector - 1} |->
               IF k < Len(entries) THEN entries[k + 1] ELSE next],
     fill |-> UNALLOCATED]

\* The words of one 128-byte directory record e at slot j of its sector:
\* type at byte 66, left/right/child at bytes 68/72/76, starting sector at
\* byte 116, size at byte 120 (its high word 0); name, colour, CLSID, state
\* and times zero.
EntryWords(e, j) ==
    LET b == WordsPerEntry * j
    IN  (b + 16) :> (e.type * 65536) @@ (b + 17) :> e.left @@
        (b + 18) :> e.right @@ (b + 19) :> e.child @@
        (b + 29) :> e.start @@ (b + 30) :> e.size @@ (b + 31) :> 0

RECURSIVE EntriesWords(_, _)
EntriesWords(es, j) ==
    IF es = << >> THEN << >>
    ELSE EntryWords(Head(es), j) @@ EntriesWords(Tail(es), j + 1)

NoLink == UNALLOCATED

Entry(type, left, right, child, start, size) ==
    [type |-> type, left |-> left, right |-> right, child |-> child,
     start |-> start, size |-> size]

\* A record that is not in use: type 0 and no links.
FreeEntry == Entry(TypeUnalloc, NoLink, NoLink, NoLink, 0, 0)

\* The q-th directory sector (q = 0, 1): the records q*EntriesPerSector ..
\* of dir, and free records after the last one.
DirSectorOf(dir, q) ==
    [w |-> EntriesWords(
              [j \in 1 .. EntriesPerSector |->
                  IF (q * EntriesPerSector) + j <= Len(dir)
                  THEN dir[(q * EntriesPerSector) + j] ELSE FreeEntry], 0),
     fill |-> 0]

DataSector == [w |-> << >>, fill |-> 0]

FileOf(d) ==
    [sig |-> d.sig,
     sector_shift |-> SectorShift,
     mini_sector_shift |-> MiniSectorShift,
     first_directory_sector_id |-> d.first_directory_sector_id,
     mini_stream_cutoff_size |-> d.mini_stream_cutoff_size,
     first_mini_fat_sector_id |-> d.first_mini_fat_sector_id,
     first_difat_sector_id |-> d.first_difat_sector_id,
     difat |-> d.difat,
     sectors |-> << WordSector(d.fat, UNALLOCATED),
                    DirSectorOf(d.dir, 0),
                    DirSectorOf(d.dir, 1),
                    WordSector(d.minifat, UNALLOCATED),
                    DataSector, DataSector, DataSector,
                    DifatSectorOf(d.difatA, d.nextA),
                    DifatSectorOf(d.difatB, d.nextB) >>]

\* The well-formed file every family varies: Root -> Storage A -> Stream A1
\* (100 bytes, mini-sectors 0 -> 1) and Root -> Stream B (1024 bytes,
\* sectors 5 -> 6), B the root's child and A the left sibling of B.
BaseDir ==
    << Entry(TypeRoot, NoLink, NoLink, 3, 4, 128),
       Entry(TypeStorage, NoLink, NoLink, 2, 0, 0),
       Entry(TypeStream, NoLink, NoLink, NoLink, 0, 100),
       Entry(TypeStream, 1, NoLink, NoLink, 5, 1024) >>

BaseFat ==
    << FATSECTOR, 2, ENDOFCHAIN, ENDOFCHAIN, ENDOFCHAIN, 6, ENDOFCHAIN,
       DIFATSECTOR, DIFATSECTOR >>

Base ==
    [sig |-> MAGICOLESIG,
     first_directory_sector_id |-> 1,
     mini_stream_cutoff_size |-> 1024,
     first_mini_fat_sector_id |-> 3,
     first_difat_sector_id |-> ENDOFCHAIN,
     difat |-> << 0 >>,
     fat |-> BaseFat,
     dir |-> BaseDir,
     minifat |-> << 1, ENDOFCHAIN >>,
     difatA |-> << >>, nextA |-> ENDOFCHAIN,
     difatB |-> << >>, nextB |-> ENDOFCHAIN]

\* Files that differ from Base in the signature.
FamSig ==
    { [Base EXCEPT !.sig = s] :
        s \in {MAGICOLESIG, "D0CF11E0A1B11AE0", "0000000000000000"} }

\* Sector ids past the end of the nine-sector file: PastFile has a FAT
\* record (a free one), PastTable has none.
PastFile == Len(BaseFat) + 1

PastTable == 4 * WordsPerSector

\* Files with a chain of DIFAT sectors.
DifatIds == {ENDOFCHAIN, UNALLOCATED, 7, 8, PastFile}

FamDifat ==
    { [Base EXCEPT !.first_difat_sector_id = f, !.nextA = a, !.nextB = b,
                   !.difatA = << e >>] :
        f \in DifatIds, a \in DifatIds, b \in DifatIds,
        e \in {UNALLOCATED, 3} }

\* Files whose leading header DIFAT entries vary: unallocated entries
\* before allocated ones, end-of-chain entries, a second FAT sector
\* (sector 3), a FAT sector past the end of the file.
FamFat ==
    { [Base EXCEPT !.difat = p, !.first_directory_sector_id = f] :
        p \in [1 .. DifatPrefix -> {UNALLOCATED, ENDOFCHAIN, 0, 3, PastFile}],
        f \in {1, WordsPerSector + 1} }

ChainWords ==
    {FATSECTOR, DIFATSECTOR, ENDOFCHAIN, UNALLOCATED, PastFile, PastTable}

\* Files whose directory chain varies: its start, and the FAT records of
\* sectors 1 and 2.
FamDirChain ==
    { [Base EXCEPT !.first_directory_sector_id = f, !.fat[2] = a,
                   !.fat[3] = b] :
        f \in {1, 2, ENDOFCHAIN, PastTable},
        a \in ChainWords \cup {1, 2}, b \in ChainWords \cup {1, 2} }

\* Files whose MiniFAT chain varies: its start, and the FAT record of
\* sector 3.
FamMiniFatChain ==
    { [Base EXCEPT !.first_mini_fat_sector_id = f, !.fat[4] = a] :
        f \in {3, ENDOFCHAIN, PastFile, PastTable},
        a \in ChainWords \cup {3, 4} }

\* Files whose mini-stream container chain varies: the root's start, and
\* the FAT records of sectors 4 and 5.
FamContainer ==
    { [Base EXCEPT !.dir[1].start = f, !.fat[5] = a, !.fat[6] = b] :
        f \in {4, 5, ENDOFCHAIN, UNALLOCATED, PastFile, PastTable},
        a \in ChainWords \cup {4, 5}, b \in {ENDOFCHAIN, 4, 6} }

\* Files whose stream B varies: its start, its size, and the FAT records of
\* sectors 5 and 6.
FamStreamB ==
    { [Base EXCEPT !.dir[4].start = f, !.dir[4].size = z, !.fat[6] = a,
                   !.fat[7] = b] :
        f \in {5, 6, ENDOFCHAIN, UNALLOCATED, PastFile, PastTable},
        z \in {1000, 1023, 1024, 1025},
        a \in ChainWords \cup {5, 6}, b \in {ENDOFCHAIN, 5} }

\* Files whose stream A1 varies: its start, its size, and the MiniFAT
\* records of mini-sectors 0 and 1.  Mini-sector 8 is past the end of the
\* mini stream.
FamStreamA1 ==
    { [Base EXCEPT !.dir[3].start = f, !.dir[3].size = z, !.minifat[1] = a,
                   !.minifat[2] = b] :
        f \in {0, 1, ENDOFCHAIN, UNALLOCATED, 8, PastTable},
        z \in {0, 1, 64, 100, 128, 1024},
        a \in {FATSECTOR, ENDOFCHAIN, UNALLOCATED, 0, 1, 8, PastTable},
        b \in {ENDOFCHAIN, 0} }

\* Files whose mini-stream cutoff varies.
FamCutoff ==
    { [Base EXCEPT !.mini_stream_cutoff_size = c] :
        c \in {0, 100, 101, 1024, 1025, 4096} }

\* Files whose directory tree varies: up to LinkBudget of the links and
\* types of records 0 .. 3 are replaced.  Record 8 does not exist.
LinkSlots == (1 .. 4) \X {"left", "right", "child", "type"}

SlotValues(slot) ==
    IF slot[2] = "type" THEN {TypeUnalloc, TypeStorage, TypeStream, TypeRoot}
    ELSE {NoLink, 0, 1, 2, 3, 4, 8}

Replacements ==
    UNION { { << slot, v >> : v \in SlotValues(slot) } : slot \in LinkSlots }

SetSlot(dir, slot, v) ==
    [dir EXCEPT ![slot[1]] =
        CASE slot[2] = "left" -> [@ EXCEPT !.left = v]
          [] slot[2] = "right" -> [@ EXCEPT !.right = v]
          [] slot[2] = "child" -> [@ EXCEPT !.child = v]
          [] OTHER -> [@ EXCEPT !.type = v]]

RECURSIVE DirVariants(_)
DirVariants(n) ==
    IF n = 0 THEN {BaseDir}
    ELSE LET less == DirVariants(n - 1)
         IN  less \cup { SetSlot(dir, r[1], r[2]) :
                           dir \in less, r \in Replacements }

FamDir == { [Base EXCEPT !.dir = dir] : dir \in DirVariants(LinkBudget) }

(***************************************************************************)
(* Initial state: main() has opened the file and read nothing.             *)
(***************************************************************************)
Files ==
    FamSig \cup FamDifat \cup FamFat \cup FamDirChain \cup FamMiniFatChain
    \cup FamContainer \cup FamStreamB \cup FamStreamA1 \cup FamCutoff
    \cup FamDir

NoHeader ==
    [sector_shift |-> 0, mini_sector_shift |-> 0,
     first_directory_sector_id |-> 0, mini_stream_cutoff_size |-> 0,
     first_mini_fat_sector_id |-> 0, first_difat_sector_id |-> 0]

Init ==
    /\ file \in { FileOf(d) : d \in Files }
    /\ pc = "start"
    /\ exc = "none"
    /\ nread = 0
    /\ magic = ""
    /\ hdr = NoHeader
    /\ difat_entries = << >>
    /\ myDifat_chain = << >>
    /\ myNextDifatSector = 0
    /\ myAllocatedSectors = << >>
    /\ mySector = 0
    /\ myDirSectorChain = << >>
    /\ myDirectorySector = 0
    /\ myDirEntryList = << >>
    /\ stack = << >>
    /\ listing = << >>
    /\ myMiniFatSectorId = 0
    /\ myMiniFatEntries = << >>
    /\ myMiniStreamSector = 0
    /\ myMiniStream = << >>
    /\ myMiniStreamChain = << >>
    /\ i = 0
    /\ myIndex = 0
    /\ streams = << >>
    /\ walk = << >>
    /\ errors = << >>

\* A while loop that never ends is followed for one iteration more than the
\* table it walks has entries.
LoopCap(tableLen) == tableLen + 1

(***************************************************************************)
(* Lines 170-176: the signature check.                                     *)
(***************************************************************************)
\* A check that lets every signature through.
SignatureOk_Any(m) == m = m

SignatureOk(m) == m = MAGICOLESIG

ReadMagic ==
    /\ pc = "start"
    /\ magic' = file.sig
    /\ nread' = nread + 8
    /\ pc' = IF SignatureOk(file.sig) THEN "header" ELSE "exit1"
    /\ UNCHANGED << file, exc, hdr, difat_entries, myDifat_chain,
                    myNextDifatSector, myAllocatedSectors, mySector,
                    myDirSectorChain, myDirectorySector, myDirEntryList, stack,
                    listing, myMiniFatSectorId, myMiniFatEntries,
                    myMiniStreamSector, myMiniStream, myMiniStreamChain, i,
                    myIndex, streams, walk, errors >>

(***************************************************************************)
(* Lines 178-246: the header fields, the 109 DIFAT entries of the header,  *)
(* and the start of the DIFAT sector chain.                                *)
(***************************************************************************)
HeaderDifat ==
    [k \in 1 .. NUMBER_DIFAT_ENTRIES_IN_HEADER |->
        IF k <= Len(file.difat) THEN file.difat[k] ELSE UNALLOCATED]

ReadHeader ==
    /\ pc = "header"
    /\ hdr' = [sector_shift |-> file.sector_shift,
               mini_sector_shift |-> file.mini_sector_shift,
               first_directory_sector_id |-> file.first_directory_sector_id,
               mini_stream_cutoff_size |-> file.mini_stream_cutoff_size,
               first_mini_fat_sector_id |-> file.first_mini_fat_sector_id,
               first_difat_sector_id |-> file.first_difat_sector_id]
    /\ difat_entries' = HeaderDifat
    /\ nread' = nread + (HeaderBytes - 8)
    /\ myDifat_chain' = << 0 >>
    /\ myNextDifatSector' = file.first_difat_sector_id
    /\ walk' = << >>
    /\ pc' = "difat_loop"
    /\ UNCHANGED << file, exc, magic, myAllocatedSectors, mySector,
                    myDirSectorChain, myDirectorySector, myDirEntryList, stack,
                    listing, myMiniFatSectorId, myMiniFatEntries,
                    myMiniStreamSector, myMiniStream, myMiniStreamChain, i,
                    myIndex, streams, errors >>

(***************************************************************************)
(* Lines 247-261: one iteration of the DIFAT sector chain loop.  Reading   *)
(* past the end of the file gives f.read(4) = b'' and struct.error.        *)
(***************************************************************************)
DifatStep ==
    /\ pc = "difat_loop"
    /\ myNextDifatSector # ENDOFCHAIN
    /\ Len(walk) < LoopCap(NSect)
    /\ myDifat_chain' = Append(myDifat_chain, myNextDifatSector)
    /\ walk' = Append(walk, myNextDifatSector)
    /\ IF InFile(myNextDifatSector)
       THEN /\ difat_entries' = difat_entries \o
                    SectorWords(myNextDifatSector, (mySectorSize \div 4) - 1)
            /\ myNextDifatSector' =
                    SectorWord(myNextDifatSector, (mySectorSize \div 4) - 1)
            /\ nread' = nread + mySectorSize
            /\ UNCHANGED << pc, exc >>
       ELSE /\ pc' = "crash"
            /\ exc' = "struct.error"
            /\ UNCHANGED << difat_entries, myNextDifatSector, nread >>
    /\ UNCHANGED << file, magic, hdr, myAllocatedSectors, mySector,
                    myDirSectorChain, myDirectorySector, myDirEntryList, stack,
                    listing, myMiniFatSectorId, myMiniFatEntries,
                    myMiniStreamSector, myMiniStream, myMiniStreamChain, i,
                    myIndex, streams, errors >>

(***************************************************************************)
(* Lines 267-313: the FAT is built from the FAT sectors the DIFAT entries  *)
(* name, up to the first end-of-chain entry, unallocated entries skipped.  *)
(* Each record read is appended to myAllocatedSectors.                     *)
(***************************************************************************)
\* A classification that takes the end-of-chain value for a sector id.
Classify_EndAsData(myNextSector) ==
    CASE myNextSector = FATSECTOR -> "FAT"
      [] myNextSector = DIFATSECTOR -> "DIFAT"
      [] myNextSector = UNALLOCATED -> "Free"
      [] OTHER -> "Data"

\* Lines 293-302.
Classify(myNextSector) ==
    CASE myNextSector = FATSECTOR -> "FAT"
      [] myNextSector = DIFATSECTOR -> "DIFAT"
      [] myNextSector = ENDOFCHAIN -> "End of Chain"
      [] myNextSector = UNALLOCATED -> "Free"
      [] OTHER -> "Data"

\* Line 291: the sector a FAT record describes, for DIFAT entry di (from 0)
\* and record j (from 0) of its FAT sector.
SectorNumber(di, j) == j + (di * (mySectorSize \div 4))

\* The positions (from 1) of the DIFAT entries whose FAT sector is read:
\* those before the first end-of-chain entry that are not unallocated
\* (lines 272-277).
DifatAllocated ==
    LET n == Len(difat_entries)
        ends == { k \in 1 .. n : difat_entries[k] = ENDOFCHAIN }
        stop == IF ends = {} THEN n + 1
                ELSE CHOOSE k \in ends : \A m \in ends : k <= m
    IN  SelectSeq([k \in 1 .. n |-> k],
                  LAMBDA k : k < stop /\ difat_entries[k] # UNALLOCATED)

\* The FAT records of the sectors named at positions ks of the DIFAT, in
\* the order read (line 303).
FatRecords(ks) ==
    LET eps == mySectorSize \div 4
    IN  [p \in 1 .. (Len(ks) * eps) |->
            LET k == ks[((p - 1) \div eps) + 1]
                j == (p - 1) % eps
                myNextSector == SectorWord(difat_entries[k], j)
            IN  [number |-> SectorNumber(k - 1, j),
                 next |-> myNextSector,
                 type |-> Classify(myNextSector),
                 type2 |-> ""]]

BuildFat ==
    /\ pc = "difat_loop"
    /\ myNextDifatSector = ENDOFCHAIN
    /\ LET ks == DifatAllocated
           past == { q \in 1 .. Len(ks) : ~InFile(difat_entries[ks[q]]) }
           firstPast == IF past = {} THEN Len(ks) + 1
                        ELSE CHOOSE q \in past : \A m \in past : q <= m
           read == SubSeq(ks, 1, firstPast - 1)
       IN  /\ myAllocatedSectors' = FatRecords(read)
           /\ nread' = nread + (Len(read) * mySectorSize)
           /\ IF past = {}
              THEN /\ pc' = "tagdir_loop"
                   /\ exc' = exc
                   /\ mySector' = hdr.first_directory_sector_id
              ELSE /\ pc' = "crash"
                   /\ exc' = "struct.error"
                   /\ mySector' = mySector
    /\ walk' = << >>
    /\ UNCHANGED << file, magic, hdr, difat_entries, myDifat_chain,
                    myNextDifatSector, myDirSectorChain, myDirectorySector,
                    myDirEntryList, stack, listing, myMiniFatSectorId,
                    myMiniFatEntries, myMiniStreamSector, myMiniStream,
                    myMiniStreamChain, i, myIndex, streams, errors >>

(***************************************************************************)
(* Lines 314-318 and 322-326: one iteration of a tagging walk.  The record *)
(* is taken at list position mySector; a position outside the list is an  *)
(* IndexError.                                                             *)
(***************************************************************************)
NumberListed(s) ==
    \E p \in 1 .. Len(myAllocatedSectors) : myAllocatedSectors[p].number = s

TagStep(at, tag) ==
    /\ pc = at
    /\ mySector # ENDOFCHAIN
    /\ Len(walk) < LoopCap(Len(myAllocatedSectors))
    /\ walk' = Append(walk, mySector)
    /\ IF mySector \in 0 .. (Len(myAllocatedSectors) - 1)
       THEN /\ myAllocatedSectors' =
                  IF NumberListed(mySector)
                  THEN [myAllocatedSectors EXCEPT ![mySector + 1].type2 = tag]
                  ELSE myAllocatedSectors
            /\ mySector' = myAllocatedSectors[mySector + 1].next
            /\ UNCHANGED << pc, exc >>
       ELSE /\ pc' = "crash"
            /\ exc' = "IndexError"
            /\ UNCHANGED << myAllocatedSectors, mySector >>
    /\ UNCHANGED << file, nread, magic, hdr, difat_entries, myDifat_chain,
                    myNextDifatSector, myDirSectorChain, myDirectorySector,
                    myDirEntryList, stack, listing, myMiniFatSectorId,
                    myMiniFatEntries, myMiniStreamSector, myMiniStream,
                    myMiniStreamChain, i, myIndex, streams, errors >>

TagDirStep == TagStep("tagdir_loop", " - Directory")

TagMiniStep == TagStep("tagmini_loop", " - Mini FAT")

\* Line 321: the directory walk is over, the MiniFAT walk starts.
TagDirDone ==
    /\ pc = "tagdir_loop"
    /\ mySector = ENDOFCHAIN
    /\ mySector' = hdr.first_mini_fat_sector_id
    /\ walk' = << >>
    /\ pc' = "tagmini_loop"
    /\ UNCHANGED << file, exc, nread, magic, hdr, difat_entries, myDifat_chain,
                    myNextDifatSector, myAllocatedSectors, myDirSectorChain,
                    myDirectorySector, myDirEntryList, stack, listing,
                    myMiniFatSectorId, myMiniFatEntries, myMiniStreamSector,
                    myMiniStream, myMiniStreamChain, i, myIndex, streams,
                    errors >>

\* Lines 328-334: the MiniFAT walk is over, the directory chain starts.
TagMiniDone ==
    /\ pc = "tagmini_loop"
    /\ mySector = ENDOFCHAIN
    /\ myDirSectorChain' = << hdr.first_directory_sector_id >>
    /\ myDirectorySector' = hdr.first_directory_sector_id
    /\ walk' = << >>
    /\ pc' = "dirchain_loop"
    /\ UNCHANGED << file, exc, nread, magic, hdr, difat_entries, myDifat_chain,
                    myNextDifatSector, myAllocatedSectors, mySector,
                    myDirEntryList, stack, listing, myMiniFatSectorId,
                    myMiniFatEntries, myMiniStreamSector, myMiniStream,
                    myMiniStreamChain, i, myIndex, streams, errors >>

(***************************************************************************)
(* The FAT lookup of the chain loops (lines 337-348, 386-395, 427-437,     *)
(* 492-501): the first record whose number is the sector, and what the     *)
(* loop does with it.  The result is the loop variable's new value and     *)
(* whether the error message is printed; with no such record the for loop  *)
(* ends without touching the loop variable.                                *)
(***************************************************************************)
FindRecord(s) ==
    LET ps == { p \in 1 .. Len(myAllocatedSectors) :
                    myAllocatedSectors[p].number = s }
    IN  IF ps = {} THEN 0 ELSE CHOOSE p \in ps : \A q \in ps : p <= q

FatNext(s) ==
    LET p == FindRecord(s)
    IN  IF p = 0
        THEN [found |-> FALSE, data |-> FALSE, to |-> s, error |-> FALSE]
        ELSE IF myAllocatedSectors[p].type = "Data"
             THEN [found |-> TRUE, data |-> TRUE,
                   to |-> myAllocatedSectors[p].next, error |-> FALSE]
        ELSE IF myAllocatedSectors[p].type = "End of Chain"
             THEN [found |-> TRUE, data |-> FALSE, to |-> ENDOFCHAIN,
                   error |-> FALSE]
        ELSE [found |-> TRUE, data |-> FALSE, to |-> ENDOFCHAIN,
              error |-> TRUE]

(***************************************************************************)
(* Lines 336-348: one iteration of the directory sector chain loop.        *)
(***************************************************************************)
DirChainStep ==
    /\ pc = "dirchain_loop"
    /\ myDirectorySector # ENDOFCHAIN
    /\ Len(walk) < LoopCap(Len(myAllocatedSectors))
    /\ walk' = Append(walk, myDirectorySector)
    /\ LET r == FatNext(myDirectorySector)
       IN  /\ myDirectorySector' = r.to
           /\ myDirSectorChain' =
                 IF r.data THEN Append(myDirSectorChain, r.to)
                 ELSE myDirSectorChain
           /\ errors' = IF r.error THEN Append(errors, "directory")
                        ELSE errors
    /\ UNCHANGED << file, pc, exc, nread, magic, hdr, difat_entries,
                    myDifat_chain, myNextDifatSector, myAllocatedSectors,
                    mySector, myDirEntryList, stack, listing,
                    myMiniFatSectorId, myMiniFatEntries, myMiniStreamSector,
                    myMiniStream, myMiniStreamChain, i, myIndex, streams >>

(***************************************************************************)
(* Lines 350-369: every sector of the directory chain is read as           *)
(* mySectorSize // 128 records, and dump_entry is called on record 0.      *)
(* A record of the list is held as the place of its 128 bytes in the file  *)
(* (data is empty when the sector lies past the end of the file), and the  *)
(* four attributes dump_entry adds; writes counts how often it added them, *)
(* so the keys "start", "type", "id", "size" exist when writes > 0.        *)
(***************************************************************************)
DirRecord(s, j) ==
    [sector |-> s, slot |-> j, short |-> ~InFile(s), writes |-> 0,
     start |-> 0, type |-> 0, id |-> 0, size |-> 0]

DirRecords(chain) ==
    LET eps == mySectorSize \div DirEntryBytes
    IN  [p \in 1 .. (Len(chain) * eps) |->
            DirRecord(chain[((p - 1) \div eps) + 1], (p - 1) % eps)]

Frame(index, indent) == [P_Index |-> index, P_Indent |-> indent, at |-> "enter"]

DirChainDone ==
    /\ pc = "dirchain_loop"
    /\ myDirectorySector = ENDOFCHAIN
    /\ myDirEntryList' = DirRecords(myDirSectorChain)
    /\ nread' = nread + (Cardinality({ q \in 1 .. Len(myDirSectorChain) :
                                          InFile(myDirSectorChain[q]) })
                         * mySectorSize)
    /\ stack' = << Frame(0, 0) >>
    /\ walk' = << >>
    /\ pc' = "dump"
    /\ UNCHANGED << file, exc, magic, hdr, difat_entries, myDifat_chain,
                    myNextDifatSector, myAllocatedSectors, mySector,
                    myDirSectorChain, myDirectorySector, listing,
                    myMiniFatSectorId, myMiniFatEntries, myMiniStreamSector,
                    myMiniStream, myMiniStreamChain, i, myIndex, streams,
                    errors >>

(***************************************************************************)
(* dump_entry, lines 84-158.  The fields of a record are decoded from its  *)
(* 128 bytes: word k of the record is at byte 4*k.                         *)
(***************************************************************************)
EntryWord(e, k) == SectorWord(e.sector, ((DirEntryBytes \div 4) * e.slot) + k)

\* Line 90: the byte at offset 66.
object_type(e) == (EntryWord(e, 16) \div 65536) % 256

\* Lines 92-94 and 99.
left_sibling(e) == EntryWord(e, 17)

right_sibling(e) == EntryWord(e, 18)

child_id(e) == EntryWord(e, 19)

starting_sector_location(e) == EntryWord(e, 29)

\* Line 100: the 64-bit size.  A size of 2^31 or more is held as HugeSize.
HugeSize == (((2 ^ 30) - 1) * 2) + 1

stream_size(e) ==
    IF EntryWord(e, 31) = 0 /\ EntryWord(e, 30) >= 0
    THEN EntryWord(e, 30) ELSE HugeSize

Top == stack[Len(stack)]

SetTop(at) == [stack EXCEPT ![Len(stack)].at = at]

\* Lines 108-110 and 149-151: a sibling is dumped when the link is not
\* the unallocated value.
HasSibling(link) == link # UNALLOCATED

\* Lines 153 and 156: the child is dumped when the child id is not 0.
HasChild(child) == child # 0

\* Lines 153-157: the indent of the child's rows.
ChildIndent(type, indent) == IF type = TypeRoot THEN indent ELSE indent + 1

\* Lines 153 and 156: the types whose child is dumped.
IsStorage(type) == type = TypeRoot \/ type = TypeStorage

\* Lines 86-110: the call, the decoding, the four attributes, and the call
\* on the left sibling.
DumpEnter ==
    /\ pc = "dump"
    /\ Top.at = "enter"
    /\ LET n == Top.P_Index
       IN  IF Len(stack) > RecursionLimit
           THEN /\ pc' = "crash" /\ exc' = "RecursionError"
                /\ UNCHANGED << myDirEntryList, stack >>
           ELSE IF n \notin 0 .. (Len(myDirEntryList) - 1)
           THEN /\ pc' = "crash" /\ exc' = "IndexError"
                /\ UNCHANGED << myDirEntryList, stack >>
           ELSE IF myDirEntryList[n + 1].short
           THEN /\ pc' = "crash" /\ exc' = "struct.error"
                /\ UNCHANGED << myDirEntryList, stack >>
           ELSE LET e == myDirEntryList[n + 1]
                IN  /\ myDirEntryList' =
                          [myDirEntryList EXCEPT ![n + 1] =
                              [e EXCEPT !.start = starting_sector_location(e),
                                        !.type = object_type(e),
                                        !.id = n,
                                        !.size = stream_size(e),
                                        !.writes = e.writes + 1]]
                    /\ stack' =
                          IF HasSibling(left_sibling(e))
                          THEN Append(SetTop("print"),
                                      Frame(left_sibling(e), Top.P_Indent))
                          ELSE SetTop("print")
                    /\ UNCHANGED << pc, exc >>
    /\ UNCHANGED << file, nread, magic, hdr, difat_entries, myDifat_chain,
                    myNextDifatSector, myAllocatedSectors, mySector,
                    myDirSectorChain, myDirectorySector, listing,
                    myMiniFatSectorId, myMiniFatEntries, myMiniStreamSector,
                    myMiniStream, myMiniStreamChain, i, myIndex, streams, walk,
                    errors >>

\* Lines 112-151: the row of the entry, and the call on the right sibling.
DumpPrint ==
    /\ pc = "dump"
    /\ Top.at = "print"
    /\ LET e == myDirEntryList[Top.P_Index + 1]
       IN  /\ listing' = Append(listing, << Top.P_Index, Top.P_Indent >>)
           /\ stack' = IF HasSibling(right_sibling(e))
                       THEN Append(SetTop("child"),
                                   Frame(right_sibling(e), Top.P_Indent))
                       ELSE SetTop("child")
    /\ UNCHANGED << file, pc, exc, nread, magic, hdr, difat_entries,
                    myDifat_chain, myNextDifatSector, myAllocatedSectors,
                    mySector, myDirSectorChain, myDirectorySector,
                    myDirEntryList, myMiniFatSectorId, myMiniFatEntries,
                    myMiniStreamSector, myMiniStream, myMiniStreamChain, i,
                    myIndex, streams, walk, errors >>

\* Lines 152-157: the call on the child of a root or a storage.
DumpChild ==
    /\ pc = "dump"
    /\ Top.at = "child"
    /\ LET e == myDirEntryList[Top.P_Index + 1]
       IN  stack' = IF IsStorage(object_type(e)) /\ HasChild(child_id(e))
                    THEN Append(SetTop("return"),
                                Frame(child_id(e),
                                      ChildIndent(object_type(e), Top.P_Indent)))
                    ELSE SetTop("return")
    /\ UNCHANGED << file, pc, exc, nread, magic, hdr, difat_entries,
                    myDifat_chain, myNextDifatSector, myAllocatedSectors,
                    mySector, myDirSectorChain, myDirectorySector,
                    myDirEntryList, listing, myMiniFatSectorId,
                    myMiniFatEntries, myMiniStreamSector, myMiniStream,
                    myMiniStreamChain, i, myIndex, streams, walk, errors >>

\* Line 158: the return.  When the call of line 369 returns, main goes on
\* with lines 371-375.
DumpReturn ==
    /\ pc = "dump"
    /\ Top.at = "return"
    /\ stack' = SubSeq(stack, 1, Len(stack) - 1)
    /\ IF Len(stack) = 1
       THEN /\ pc' = "minifat_loop"
            /\ myMiniFatSectorId' = hdr.first_mini_fat_sector_id
            /\ myMiniFatEntries' = << >>
       ELSE UNCHANGED << pc, myMiniFatSectorId, myMiniFatEntries >>
    /\ UNCHANGED << file, exc, nread, magic, hdr, difat_entries, myDifat_chain,
                    myNextDifatSector, myAllocatedSectors, mySector,
                    myDirSectorChain, myDirectorySector, myDirEntryList,
                    listing, myMiniStreamSector, myMiniStream,
                    myMiniStreamChain, i, myIndex, streams, walk, errors >>

(***************************************************************************)
(* Lines 376-395: one iteration of the MiniFAT sector chain loop.          *)
(***************************************************************************)
MiniFatStep ==
    /\ pc = "minifat_loop"
    /\ myMiniFatSectorId # ENDOFCHAIN
    /\ Len(walk) < LoopCap(Len(myAllocatedSectors))
    /\ walk' = Append(walk, myMiniFatSectorId)
    /\ IF InFile(myMiniFatSectorId)
       THEN LET r == FatNext(myMiniFatSectorId)
            IN  /\ myMiniFatEntries' = myMiniFatEntries \o
                       SectorWords(myMiniFatSectorId, mySectorSize \div 4)
                /\ nread' = nread + mySectorSize
                /\ myMiniFatSectorId' = r.to
                /\ errors' = IF r.error THEN Append(errors, "MiniFAT")
                             ELSE errors
                /\ UNCHANGED << pc, exc >>
       ELSE /\ pc' = "crash"
            /\ exc' = "struct.error"
            /\ UNCHANGED << myMiniFatEntries, nread, myMiniFatSectorId,
                            errors >>
    /\ UNCHANGED << file, magic, hdr, difat_entries, myDifat_chain,
                    myNextDifatSector, myAllocatedSectors, mySector,
                    myDirSectorChain, myDirectorySector, myDirEntryList,
                    stack, listing, myMiniStreamSector, myMiniStream,
                    myMiniStreamChain, i, myIndex, streams >>

\* Lines 397-415: the loop is over; the mini stream starts at the start
\* attribute of directory record 0.
MiniFatDone ==
    /\ pc = "minifat_loop"
    /\ myMiniFatSectorId = ENDOFCHAIN
    /\ myMiniStreamSector' = myDirEntryList[1].start
    /\ myMiniStream' = << >>
    /\ myMiniStreamChain' = << >>
    /\ walk' = << >>
    /\ pc' = "ministream_loop"
    /\ UNCHANGED << file, exc, nread, magic, hdr, difat_entries,
                    myDifat_chain, myNextDifatSector, myAllocatedSectors,
                    mySector, myDirSectorChain, myDirectorySector,
                    myDirEntryList, stack, listing, myMiniFatSectorId,
                    myMiniFatEntries, i, myIndex, streams, errors >>

(***************************************************************************)
(* Lines 416-437: one iteration of the mini-stream container loop.  The    *)
(* sector is cut into mySectorSize // myMiniSectorSize mini-sectors; one   *)
(* read past the end of the file has empty data.                           *)
(***************************************************************************)
\* The same with every mini-sector placed one mini-sector further on.
MiniSectors_Shifted(s) ==
    [k \in 1 .. (mySectorSize \div myMiniSectorSize) |->
        [short |-> ~InFile(s),
         offset |-> ((s + 1) * mySectorSize) + (k * myMiniSectorSize)]]

MiniSectors(s) ==
    [k \in 1 .. (mySectorSize \div myMiniSectorSize) |->
        [short |-> ~InFile(s),
         offset |-> ((s + 1) * mySectorSize) + ((k - 1) * myMiniSectorSize)]]

MiniStreamStep ==
    /\ pc = "ministream_loop"
    /\ myMiniStreamSector # ENDOFCHAIN
    /\ Len(walk) < LoopCap(Len(myAllocatedSectors))
    /\ walk' = Append(walk, myMiniStreamSector)
    /\ myMiniStreamChain' = Append(myMiniStreamChain, myMiniStreamSector)
    /\ myMiniStream' = myMiniStream \o MiniSectors(myMiniStreamSector)
    /\ nread' = nread + (IF InFile(myMiniStreamSector) THEN mySectorSize
                         ELSE 0)
    /\ LET r == FatNext(myMiniStreamSector)
       IN  /\ myMiniStreamSector' = r.to
           /\ errors' = IF r.error THEN Append(errors, "Mini streams")
                        ELSE errors
    /\ UNCHANGED << file, pc, exc, magic, hdr, difat_entries, myDifat_chain,
                    myNextDifatSector, myAllocatedSectors, mySector,
                    myDirSectorChain, myDirectorySector, myDirEntryList,
                    stack, listing, myMiniFatSectorId, myMiniFatEntries, i,
                    myIndex, streams >>

\* Lines 438-444: the loop is over; the stream loop starts.
MiniStreamDone ==
    /\ pc = "ministream_loop"
    /\ myMiniStreamSector = ENDOFCHAIN
    /\ i' = 0
    /\ walk' = << >>
    /\ pc' = "stream_loop"
    /\ UNCHANGED << file, exc, nread, magic, hdr, difat_entries,
                    myDifat_chain, myNextDifatSector, myAllocatedSectors,
                    mySector, myDirSectorChain, myDirectorySector,
                    myDirEntryList, stack, listing, myMiniFatSectorId,
                    myMiniFatEntries, myMiniStreamSector, myMiniStream,
                    myMiniStreamChain, myIndex, streams, errors >>

(***************************************************************************)
(* Lines 444-454 and 502: one iteration of the stream loop up to the       *)
(* choice of the table.  i is the position of the for loop's iterator: the *)
(* inner for loop of line 492 reuses the name, and the iterator restores   *)
(* it at the next iteration, before anything reads it.                     *)
(***************************************************************************)
\* A choice that sends a stream of exactly the cutoff size to the MiniFAT.
UsesMiniStream_Inclusive(mySize, cutoff) == cutoff < 0 \/ mySize <= cutoff

\* Line 454.  The cutoff is an unsigned 32-bit word.
UsesMiniStream(mySize, cutoff) == cutoff < 0 \/ mySize < cutoff

\* A test that takes every record of type stream, written or not.
IsDumpedStream_Any(e) == ~e.short /\ object_type(e) = TypeStream

\* Lines 446-448.
IsDumpedStream(e) == e.writes > 0 /\ e.type = TypeStream

StreamNext ==
    /\ pc = "stream_loop"
    /\ i < Len(myDirEntryList)
    /\ LET e == myDirEntryList[i + 1]
       IN  IF IsDumpedStream(e)
           THEN /\ myIndex' = e.start
                /\ streams' = Append(streams,
                       [id |-> e.id, size |-> e.size, bytes |-> 0,
                        tables |-> {}, offsets |-> << >>,
                        done |-> FALSE])
                /\ pc' = IF UsesMiniStream(e.size, hdr.mini_stream_cutoff_size)
                         THEN "mini_loop" ELSE "main_loop"
                /\ i' = i
           ELSE /\ i' = i + 1
                /\ UNCHANGED << myIndex, streams, pc >>
    /\ walk' = << >>
    /\ UNCHANGED << file, exc, nread, magic, hdr, difat_entries,
                    myDifat_chain, myNextDifatSector, myAllocatedSectors,
                    mySector, myDirSectorChain, myDirectorySector,
                    myDirEntryList, stack, listing, myMiniFatSectorId,
                    myMiniFatEntries, myMiniStreamSector, myMiniStream,
                    myMiniStreamChain, errors >>

\* Line 503.
StreamsDone ==
    /\ pc = "stream_loop"
    /\ i = Len(myDirEntryList)
    /\ pc' = "exit0"
    /\ UNCHANGED << file, exc, nread, magic, hdr, difat_entries,
                    myDifat_chain, myNextDifatSector, myAllocatedSectors,
                    mySector, myDirSectorChain, myDirectorySector,
                    myDirEntryList, stack, listing, myMiniFatSectorId,
                    myMiniFatEntries, myMiniStreamSector, myMiniStream,
                    myMiniStreamChain, i, myIndex, streams, walk, errors >>

\* Lines 459-470 and 479-490: n bytes are dumped, from the file offset
\* printed at lines 461 and 481.
Dumped(n, table, offset) ==
    [streams EXCEPT ![Len(streams)].bytes = @ + n,
                    ![Len(streams)].tables = @ \cup table,
                    ![Len(streams)].offsets = Append(@, offset)]

(***************************************************************************)
(* Lines 457-472: one iteration of a stream's MiniFAT chain loop: the      *)
(* myMiniSectorSize bytes of mini-sector myIndex are dumped, then the next *)
(* mini-sector is taken from the MiniFAT.                                  *)
(***************************************************************************)
MiniLoopStep ==
    /\ pc = "mini_loop"
    /\ myIndex # ENDOFCHAIN
    /\ Len(walk) < LoopCap(Len(myMiniFatEntries))
    /\ walk' = Append(walk, myIndex)
    /\ IF myIndex \notin 0 .. (Len(myMiniStream) - 1)
       THEN /\ pc' = "crash" /\ exc' = "IndexError"
            /\ UNCHANGED << myIndex, streams >>
       ELSE IF myMiniStream[myIndex + 1].short
       THEN /\ pc' = "crash" /\ exc' = "IndexError"
            /\ UNCHANGED << myIndex, streams >>
       ELSE IF myIndex \notin 0 .. (Len(myMiniFatEntries) - 1)
       THEN /\ pc' = "crash" /\ exc' = "IndexError"
            /\ streams' = Dumped(myMiniSectorSize, {"MiniFAT"},
                               myMiniStream[myIndex + 1].offset)
            /\ UNCHANGED myIndex
       ELSE /\ myIndex' = myMiniFatEntries[myIndex + 1]
            /\ streams' = Dumped(myMiniSectorSize, {"MiniFAT"},
                               myMiniStream[myIndex + 1].offset)
            /\ UNCHANGED << pc, exc >>
    /\ UNCHANGED << file, nread, magic, hdr, difat_entries, myDifat_chain,
                    myNextDifatSector, myAllocatedSectors, mySector,
                    myDirSectorChain, myDirectorySector, myDirEntryList,
                    stack, listing, myMiniFatSectorId, myMiniFatEntries,
                    myMiniStreamSector, myMiniStream, myMiniStreamChain, i,
                    errors >>

(***************************************************************************)
(* Lines 476-501: one iteration of a stream's FAT chain loop: the sector   *)
(* is read and dumped, then the next sector is taken from the FAT.         *)
(***************************************************************************)
MainLoopStep ==
    /\ pc = "main_loop"
    /\ myIndex # ENDOFCHAIN
    /\ Len(walk) < LoopCap(Len(myAllocatedSectors))
    /\ walk' = Append(walk, myIndex)
    /\ IF InFile(myIndex)
       THEN LET r == FatNext(myIndex)
            IN  /\ myIndex' = r.to
                /\ streams' = Dumped(mySectorSize, {"FAT"},
                                     (1 + myIndex) * mySectorSize)
                /\ nread' = nread + mySectorSize
                /\ errors' = IF r.error THEN Append(errors, "data streams")
                             ELSE errors
                /\ UNCHANGED << pc, exc >>
       ELSE /\ pc' = "crash" /\ exc' = "IndexError"
            /\ UNCHANGED << myIndex, streams, nread, errors >>
    /\ UNCHANGED << file, magic, hdr, difat_entries, myDifat_chain,
                    myNextDifatSector, myAllocatedSectors, mySector,
                    myDirSectorChain, myDirectorySector, myDirEntryList,
                    stack, listing, myMiniFatSectorId, myMiniFatEntries,
                    myMiniStreamSector, myMiniStream, myMiniStreamChain, i >>

\* Line 502: the stream's loop is over.
StreamDone ==
    /\ pc \in {"mini_loop", "main_loop"}
    /\ myIndex = ENDOFCHAIN
    /\ streams' = [streams EXCEPT ![Len(streams)].done = TRUE]
    /\ i' = i + 1
    /\ walk' = << >>
    /\ pc' = "stream_loop"
    /\ UNCHANGED << file, exc, nread, magic, hdr, difat_entries,
                    myDifat_chain, myNextDifatSector, myAllocatedSectors,
                    mySector, myDirSectorChain, myDirectorySector,
                    myDirEntryList, stack, listing, myMiniFatSectorId,
                    myMiniFatEntries, myMiniStreamSector, myMiniStream,
                    myMiniStreamChain, myIndex, errors >>

Next ==
    \/ ReadMagic
    \/ ReadHeader
    \/ DifatStep
    \/ BuildFat
    \/ TagDirStep
    \/ TagDirDone
    \/ TagMiniStep
    \/ TagMiniDone
    \/ DirChainStep
    \/ DirChainDone
    \/ DumpEnter
    \/ DumpPrint
    \/ DumpChild
    \/ DumpReturn
    \/ MiniFatStep
    \/ MiniFatDone
    \/ MiniStreamStep
    \/ MiniStreamDone
    \/ StreamNext
    \/ StreamsDone
    \/ MiniLoopStep
    \/ MainLoopStep
    \/ StreamDone

Spec == Init /\ [][Next]_vars

(***************************************************************************)
(* What the format description expects, computed from the tables alone.    *)
(***************************************************************************)
Range(seq) == { seq[k] : k \in 1 .. Len(seq) }

NoRepeat(seq) ==
    \A a \in 1 .. Len(seq) : \A b \in 1 .. Len(seq) : a # b => seq[a] # seq[b]

IsPrefix(a, b) ==
    Len(a) <= Len(b) /\ \A k \in 1 .. Len(a) : a[k] = b[k]

\* The FAT word of sector s: the value of the table entry describing s.
FatWord(s) ==
    LET p == CHOOSE q \in 1 .. Len(myAllocatedSectors) :
                 myAllocatedSectors[q].number = s
    IN  myAllocatedSectors[p].next

IsSentinel(w) == w \in {DIFATSECTOR, FATSECTOR, ENDOFCHAIN, UNALLOCATED}

\* The chain of the FAT from sector s: its ids up to the one whose word is
\* end-of-chain, and whether it is valid (every id in the table, none met
\* twice, every word a sector id or end-of-chain).
RECURSIVE FatChain(_, _)
FatChain(s, seen) ==
    IF s \in seen \/ ~NumberListed(s)
    THEN [ok |-> FALSE, ids |-> << >>]
    ELSE IF FatWord(s) = ENDOFCHAIN
    THEN [ok |-> TRUE, ids |-> << s >>]
    ELSE IF IsSentinel(FatWord(s))
    THEN [ok |-> FALSE, ids |-> << s >>]
    ELSE LET rest == FatChain(FatWord(s), seen \cup {s})
         IN  [ok |-> rest.ok, ids |-> << s >> \o rest.ids]

\* The same for the MiniFAT, whose entry m describes mini-sector m.
RECURSIVE MiniChain(_, _)
MiniChain(m, seen) ==
    IF m \in seen \/ m \notin 0 .. (Len(myMiniFatEntries) - 1)
       \/ m \notin 0 .. (Len(myMiniStream) - 1)
    THEN [ok |-> FALSE, ids |-> << >>]
    ELSE IF myMiniFatEntries[m + 1] = ENDOFCHAIN
    THEN [ok |-> TRUE, ids |-> << m >>]
    ELSE IF IsSentinel(myMiniFatEntries[m + 1])
    THEN [ok |-> FALSE, ids |-> << m >>]
    ELSE LET rest == MiniChain(myMiniFatEntries[m + 1], seen \cup {m})
         IN  [ok |-> rest.ok, ids |-> << m >> \o rest.ids]

\* The loops that follow the FAT, and the variable each one walks with.
FatLoops ==
    {"tagdir_loop", "tagmini_loop", "dirchain_loop", "minifat_loop",
     "ministream_loop", "main_loop"}

ChainLoops ==
    {"dirchain_loop", "minifat_loop", "ministream_loop", "main_loop"}

Cursor(v) ==
    CASE pc \in {"tagdir_loop", "tagmini_loop"} -> v[1]
      [] pc = "dirchain_loop" -> v[2]
      [] pc = "minifat_loop" -> v[3]
      [] pc = "ministream_loop" -> v[4]
      [] OTHER -> v[5]

cursors ==
    << mySector, myDirectorySector, myMiniFatSectorId, myMiniStreamSector,
       myIndex >>

(***************************************************************************)
(* C1 -- every chain-following loop ends on every input: no walk is at     *)
(* more ids than its table has entries (the sectors of the file for the    *)
(* DIFAT chain, the FAT for the walks over the FAT, the MiniFAT for a      *)
(* stream's mini chain).                                                   *)
(***************************************************************************)
C1_WalksBounded ==
    /\ pc = "difat_loop" => Len(walk) <= NSect
    /\ pc \in FatLoops => Len(walk) <= Len(myAllocatedSectors)
    /\ pc = "mini_loop" => Len(walk) <= Len(myMiniFatEntries)

(***************************************************************************)
(* C2 -- in a chain walk over the FAT or the MiniFAT, a step from an id    *)
(* whose entry is Data(next) goes on to next, a step from an id whose      *)
(* entry is end-of-chain ends the walk without an error, and a step from   *)
(* an id that is outside the table, already visited in this walk, or of    *)
(* any other class ends the walk with the chain's error: it does not go    *)
(* on, crash or stay at the id.                                            *)
(***************************************************************************)
FatBroken(s) ==
    \/ ~NumberListed(s)
    \/ s \in Range(walk)
    \/ FatWord(s) \in {DIFATSECTOR, FATSECTOR, UNALLOCATED}

MiniBroken(m) ==
    \/ m \notin 0 .. (Len(myMiniFatEntries) - 1)
    \/ m \in Range(walk)
    \/ myMiniFatEntries[m + 1] \in {DIFATSECTOR, FATSECTOR, UNALLOCATED}

EndsBroken ==
    /\ pc' = pc
    /\ Cursor(cursors') = ENDOFCHAIN
    /\ Len(errors') = Len(errors) + 1

GoesOn(next) ==
    /\ pc' = pc
    /\ Cursor(cursors') = next
    /\ errors' = errors

WalkStep ==
    /\ pc \in ChainLoops \cup {"mini_loop"}
    /\ walk' = Append(walk, Cursor(cursors))

C2_Step ==
    WalkStep =>
        IF pc = "mini_loop"
        THEN IF MiniBroken(myIndex) THEN EndsBroken
             ELSE GoesOn(myMiniFatEntries[myIndex + 1])
        ELSE IF FatBroken(Cursor(cursors)) THEN EndsBroken
             ELSE GoesOn(FatWord(Cursor(cursors)))

C2_BrokenChainEndsWalk == [][C2_Step]_vars

(***************************************************************************)
(* C3 -- the directory traversal records no entry id twice: a link to an   *)
(* entry already visited stops the traversal.                              *)
(***************************************************************************)
ListedIds == [k \in 1 .. Len(listing) |-> listing[k][1]]

C3_NoEntryRecordedTwice == NoRepeat(ListedIds)

(***************************************************************************)
(* C4 -- when the next-DIFAT-sector pointer names a sector already visited *)
(* in this DIFAT chain, the resolution stops: no further entry is          *)
(* appended and the sector is not visited again.                           *)
(***************************************************************************)
C4_Step ==
    (pc = "difat_loop" /\ myNextDifatSector \in Range(walk)) =>
        (difat_entries' = difat_entries /\ myDifat_chain' = myDifat_chain)

C4_DifatCycleStops == [][C4_Step]_vars

(***************************************************************************)
(* C6 -- for a stream whose chain is valid, the number of bytes produced   *)
(* is its declared size: the sectors (or mini-sectors) of the chain cut    *)
(* to the size.                                                            *)
(***************************************************************************)
StreamStart(r) == starting_sector_location(myDirEntryList[r.id + 1])

ValidStreamChain(r) ==
    IF r.size < hdr.mini_stream_cutoff_size
    THEN MiniChain(StreamStart(r), {}).ok
    ELSE FatChain(StreamStart(r), {}).ok

C6_BytesEqualSize ==
    \A k \in 1 .. Len(streams) :
        (streams[k].done /\ ValidStreamChain(streams[k]))
            => streams[k].bytes = streams[k].size

(***************************************************************************)
(* C7 -- for an acyclic directory tree the traversal from entry 0 at depth *)
(* 0 records, for an entry e at depth d: what its left sibling reaches (at *)
(* d), e itself (at d), what its right sibling reaches (at d), then what   *)
(* its child reaches, at d + 1 under a storage and at d under the root.    *)
(* Tree(n, d, seen) is that order, and whether every link met leads to an  *)
(* entry of the list that is in the file and was not met before.           *)
(***************************************************************************)
NoRows(seen) == [ok |-> TRUE, rows |-> << >>, seen |-> seen]

RECURSIVE Tree(_, _, _)
Tree(n, d, seen) ==
    IF n \in seen \/ n \notin 0 .. (Len(myDirEntryList) - 1)
    THEN [ok |-> FALSE, rows |-> << >>, seen |-> seen]
    ELSE IF myDirEntryList[n + 1].short
    THEN [ok |-> FALSE, rows |-> << >>, seen |-> seen]
    ELSE LET e == myDirEntryList[n + 1]
             L == IF left_sibling(e) = NoLink THEN NoRows(seen \cup {n})
                  ELSE Tree(left_sibling(e), d, seen \cup {n})
             R == IF ~L.ok \/ right_sibling(e) = NoLink THEN NoRows(L.seen)
                  ELSE Tree(right_sibling(e), d, L.seen)
             C == IF ~L.ok \/ ~R.ok \/ ~IsStorage(object_type(e))
                     \/ child_id(e) = NoLink
                  THEN NoRows(R.seen)
                  ELSE Tree(child_id(e),
                            IF object_type(e) = TypeRoot THEN d ELSE d + 1,
                            R.seen)
         IN  [ok |-> L.ok /\ R.ok /\ C.ok,
              rows |-> L.rows \o << << n, d >> >> \o R.rows \o C.rows,
              seen |-> C.seen]

TraversalBegun == Len(myDirEntryList) > 0

TraversalOver == TraversalBegun /\ pc # "dump"

C7_TraversalOrder ==
    (TraversalBegun /\ Tree(0, 0, {}).ok) =>
        /\ IsPrefix(listing, Tree(0, 0, {}).rows)
        /\ TraversalOver => listing = Tree(0, 0, {}).rows

(***************************************************************************)
(* C10 -- once the FAT is built, the entry at table position p describes   *)
(* sector p, whatever the DIFAT sequence.                                  *)
(***************************************************************************)
C10_TableIndexedBySector ==
    \A p \in 1 .. Len(myAllocatedSectors) :
        myAllocatedSectors[p].number = p - 1

(***************************************************************************)
(* C5 -- the table a stream's chain is followed in is chosen by the        *)
(* declared size alone: below the cutoff only the MiniFAT is consulted, at *)
(* or above the cutoff only the FAT.                                       *)
(***************************************************************************)
DeclaredSize(r) == stream_size(myDirEntryList[r.id + 1])

TableFor(r) ==
    IF DeclaredSize(r) < hdr.mini_stream_cutoff_size THEN "MiniFAT" ELSE "FAT"

C5_TableChosenBySize ==
    /\ \A k \in 1 .. Len(streams) : streams[k].tables \subseteq {TableFor(streams[k])}
    /\ pc = "mini_loop" => TableFor(streams[Len(streams)]) = "MiniFAT"
    /\ pc = "main_loop" => TableFor(streams[Len(streams)]) = "FAT"

\* A stream below the cutoff and a stream of exactly the cutoff size have
\* both been followed to their ends.
C5_BothTablesUsed ==
    /\ \E k \in 1 .. Len(streams) :
          /\ streams[k].done
          /\ DeclaredSize(streams[k]) < hdr.mini_stream_cutoff_size
          /\ streams[k].tables = {"MiniFAT"}
    /\ \E k \in 1 .. Len(streams) :
          /\ streams[k].done
          /\ DeclaredSize(streams[k]) = hdr.mini_stream_cutoff_size
          /\ streams[k].tables = {"FAT"}

(***************************************************************************)
(* C8 -- when the first 8 bytes are not the signature, the decode ends at  *)
(* once in its failure exit: nothing is read after those 8 bytes, and no   *)
(* header field, DIFAT, FAT or directory state is built.                   *)
(***************************************************************************)
NothingBuilt ==
    /\ hdr = NoHeader
    /\ difat_entries = << >>
    /\ myDifat_chain = << >>
    /\ myAllocatedSectors = << >>
    /\ myDirSectorChain = << >>
    /\ myDirEntryList = << >>
    /\ listing = << >>
    /\ myMiniFatEntries = << >>
    /\ myMiniStream = << >>
    /\ streams = << >>

C8_BadSignatureStops ==
    (pc # "start" /\ file.sig # MAGICOLESIG) =>
        (pc = "exit1" /\ nread = 8 /\ NothingBuilt)

C8_BadSignatureSeen ==
    pc = "exit1" /\ magic = "D0CF11E0A1B11AE0" /\ nread = 8

(***************************************************************************)
(* C9 -- the walk of a valid sector chain (every id in the FAT, every      *)
(* entry a sector id or end-of-chain, end-of-chain reached) ends, is at no *)
(* more ids than the FAT has entries, is at no id twice, and records       *)
(* exactly the ids from the start to the one whose entry is end-of-chain.  *)
(* While a walk runs, the ids it has been at are the first ids of the      *)
(* chain and its variable holds the next one, or end-of-chain after the    *)
(* last.                                                                   *)
(***************************************************************************)
Along(chain, cur) ==
    /\ IsPrefix(walk, chain.ids)
    /\ cur = IF Len(walk) < Len(chain.ids) THEN chain.ids[Len(walk) + 1]
             ELSE ENDOFCHAIN
    /\ NoRepeat(walk)
    /\ Len(walk) <= Len(myAllocatedSectors)

DirChain == FatChain(hdr.first_directory_sector_id, {})

MiniFatSectorChain == FatChain(hdr.first_mini_fat_sector_id, {})

ContainerChain == FatChain(starting_sector_location(myDirEntryList[1]), {})

StreamChain == FatChain(StreamStart(streams[Len(streams)]), {})

C9_ValidChainWalk ==
    /\ (pc = "dirchain_loop" /\ DirChain.ok) =>
          /\ Along(DirChain, myDirectorySector)
          /\ myDirSectorChain =
                IF myDirectorySector = ENDOFCHAIN THEN DirChain.ids
                ELSE SubSeq(DirChain.ids, 1, Len(walk) + 1)
    /\ (pc = "ministream_loop" /\ ContainerChain.ok) =>
          /\ Along(ContainerChain, myMiniStreamSector)
          /\ myMiniStreamChain = walk
    /\ (pc = "minifat_loop" /\ MiniFatSectorChain.ok) =>
          Along(MiniFatSectorChain, myMiniFatSectorId)
    /\ (pc = "main_loop" /\ StreamChain.ok) =>
          Along(StreamChain, myIndex)

\* The three walks have each come to the end of a valid chain, two of them
\* of more than one sector.
C9_ValidChainsWalked ==
    /\ pc = "main_loop" /\ myIndex = ENDOFCHAIN
    /\ StreamChain.ok /\ walk = StreamChain.ids /\ Len(walk) > 1
    /\ DirChain.ok /\ myDirSectorChain = DirChain.ids
    /\ Len(myDirSectorChain) > 1
    /\ ContainerChain.ok /\ myMiniStreamChain = ContainerChain.ids

(***************************************************************************)
(* C11 -- the traversal calls itself on an entry's child exactly when the  *)
(* entry is a storage or the root and its child id is not 0xFFFFFFFF: no   *)
(* call (and no access to the list at that id) for the sentinel, a call    *)
(* for every other id, 0 included, and never a call for a stream.          *)
(***************************************************************************)
ChildCalled == Len(stack') = Len(stack) + 1

C11_Step ==
    (pc = "dump" /\ Top.at = "child") =>
        LET e == myDirEntryList[Top.P_Index + 1]
        IN  ChildCalled <=>
                (IsStorage(object_type(e)) /\ child_id(e) # UNALLOCATED)

C11_ChildSentinel == [][C11_Step]_vars

(***************************************************************************)
(* C12 -- for a valid mini-stream container chain c (the root's start      *)
(* followed in the FAT) and m = sector size / mini-sector size,            *)
(* mini-sector k is the mini-sector-size bytes at file offset              *)
(* (1 + c[k div m]) * sector size + (k mod m) * mini-sector size, for      *)
(* every k < n * m; a stream's mini chain dumps each of its mini-sectors   *)
(* from there.                                                             *)
(***************************************************************************)
PerSector == (2 ^ hdr.sector_shift) \div (2 ^ hdr.mini_sector_shift)

MiniSectorOffset(k) ==
    ((1 + ContainerChain.ids[(k \div PerSector) + 1]) * (2 ^ hdr.sector_shift))
    + ((k % PerSector) * (2 ^ hdr.mini_sector_shift))

ContainerSectorsRead ==
    IF pc = "ministream_loop" THEN Len(walk) ELSE Len(ContainerChain.ids)

C12_MiniSectorOffsets ==
    /\ (pc \in {"ministream_loop", "stream_loop", "mini_loop", "main_loop",
                "exit0"} /\ ContainerChain.ok) =>
          /\ Len(myMiniStream) = ContainerSectorsRead * PerSector
          /\ \A k \in 0 .. (Len(myMiniStream) - 1) :
                myMiniStream[k + 1].offset = MiniSectorOffset(k)
    /\ (pc = "mini_loop" /\ ContainerChain.ok) =>
          LET from == streams[Len(streams)].offsets
          IN  /\ Len(from) = Len(walk)
              /\ \A j \in 1 .. Len(from) : from[j] = MiniSectorOffset(walk[j])

\* A stream has been dumped from two mini-sectors of a valid container
\* chain of more than one sector.
C12_MiniStreamDumped ==
    /\ pc = "mini_loop" /\ myIndex = ENDOFCHAIN
    /\ ContainerChain.ok /\ Len(ContainerChain.ids) > 1
    /\ Len(myMiniStream) = Len(ContainerChain.ids) * PerSector
    /\ Len(streams[Len(streams)].offsets) > 1

(***************************************************************************)
(* C13 -- the derived fields start, type, size and id of a directory entry *)
(* are written once, and every such write is over before an entry reaches  *)
(* a consumer: before the listing emits its first row and before the       *)
(* stream phase reads an entry.  A step writes no derived field once a row *)
(* is out, and leaves no entry written more than once.                     *)
(***************************************************************************)
Writes(list) == [n \in 1 .. Len(list) |-> list[n].writes]

Consumed ==
    listing # << >> \/ pc \in {"stream_loop", "mini_loop", "main_loop", "exit0"}

C13_Step ==
    /\ \A n \in 1 .. Len(myDirEntryList') : myDirEntryList'[n].writes <= 1
    /\ Consumed => Writes(myDirEntryList') = Writes(myDirEntryList)

C13_WrittenOnceBeforeUse == [][C13_Step]_vars

(***************************************************************************)
(* C14 -- the stream phase handles exactly the entries the traversal from  *)
(* entry 0 reached and whose type is stream, each once and by ascending    *)
(* id; an entry not reached is skipped, and no derived field is read from  *)
(* an entry the traversal did not write it to, the start of entry 0        *)
(* included.                                                               *)
(***************************************************************************)
Reached == Range(ListedIds)

StreamIds == [k \in 1 .. Len(streams) |-> streams[k].id]

\* The entries the stream loop has been at.
EntriesSeen ==
    CASE pc = "stream_loop" -> i
      [] pc \in {"mini_loop", "main_loop"} -> i + 1
      [] OTHER -> Len(myDirEntryList)

ReachedStreams(upTo) ==
    { n \in 0 .. (upTo - 1) :
        n \in Reached /\ object_type(myDirEntryList[n + 1]) = TypeStream }

C14_StreamPhase ==
    /\ pc \in {"stream_loop", "mini_loop", "main_loop", "exit0"} =>
          /\ \A a \in 1 .. Len(streams) : \A b \in 1 .. Len(streams) :
                a < b => streams[a].id < streams[b].id
          /\ Range(StreamIds) = ReachedStreams(EntriesSeen)
          /\ \A k \in 1 .. Len(streams) :
                myDirEntryList[streams[k].id + 1].writes > 0
    /\ pc \in {"ministream_loop", "stream_loop", "mini_loop", "main_loop",
               "exit0"} =>
          (0 \in Reached /\ myDirEntryList[1].writes > 0)

\* The stream phase is over, it handled a stream, and it skipped a record
\* of type stream that the traversal did not reach.
C14_UnreachedStreamSkipped ==
    /\ pc = "exit0"
    /\ streams # << >>
    /\ \E n \in 0 .. (Len(myDirEntryList) - 1) :
          /\ n \notin Reached
          /\ ~myDirEntryList[n + 1].short
          /\ object_type(myDirEntryList[n + 1]) = TypeStream
          /\ n \notin Range(StreamIds)

====
